---- MODULE Spec2Model ----
(***************************************************************************)
(* QuizPro (src/script.js): the quiz session as a state machine.           *)
(*                                                                         *)
(* state  the QuizState object (this.state of QuizApp)                     *)
(* dom    the part of the document the handlers read and write             *)
(* env    the browser: whether some live interval has lost its handle,     *)
(*        pending setTimeout callbacks, fetches in flight, localStorage    *)
(*                                                                         *)
(* Every handler is an operator from a world [state, dom, env, threw] to   *)
(* a world, composed the way the code calls them; an action applies one    *)
(* event's handler to the current world.  Events fire in any order: a      *)
(* setInterval tick, a setTimeout callback and a user event are each one   *)
(* atomic step of the single-threaded event loop.                          *)
(***************************************************************************)
EXTENDS Integers, Sequences, FiniteSets, TLC

VARIABLES state, dom, env

vars == <<state, dom, env>>

---------------------------------------------------------------------------
(* Bounds of the model *)

MaxQuestions == 2   \* longest question list a fetch returns
MaxTimeouts == 1    \* pending delayed auto-advance callbacks
MaxFetches == 1     \* question fetches in flight
MaxOvertime == 1    \* how far below zero timeLeft is followed

---------------------------------------------------------------------------
(* Program constants *)

MIN_QUESTIONS == 1
MAX_QUESTIONS == 50
MIN_TIME == 5
MAX_TIME == 300
DEFAULT_NUM == 10
DEFAULT_TIME == 20

\* parseInt of an empty or non-numeric field; every comparison with it is
\* false and arithmetic on it yields it again
NaN == -1000

IsNaN(x) == x = NaN
Lt(a, b) == ~IsNaN(a) /\ ~IsNaN(b) /\ a < b
Gt(a, b) == ~IsNaN(a) /\ ~IsNaN(b) /\ a > b
Le(a, b) == ~IsNaN(a) /\ ~IsNaN(b) /\ a <= b
Ge(a, b) == ~IsNaN(a) /\ ~IsNaN(b) /\ a >= b
Minus(a, b) == IF IsNaN(a) \/ IsNaN(b) THEN NaN ELSE a - b
Plus(a, b) == IF IsNaN(a) \/ IsNaN(b) THEN NaN ELSE a + b

\* userAnswer of a record
Null == "null"
Skipped == "Skipped"

---------------------------------------------------------------------------
(* Inputs *)

\* values typed into the two numeric fields of the setup form
NumInputs == {MIN_QUESTIONS}
TimeInputs == {MIN_TIME - 1, MIN_TIME}

\* the answer elements the user picks among: the correct one and a wrong one
Choices == {"C", "W1"}

\* a question as the API returns it (type=multiple: three incorrect answers)
Question(k) ==
  [question |-> k, correct_answer |-> "C", incorrect_answers |-> <<"W1", "W2", "W3">>]

Questions(n) == [k \in 1..n |-> Question(k)]

\* outcomes of a fetch: an error, or a list of 0..MaxQuestions questions
FetchError == [ok |-> FALSE, results |-> <<>>]
FetchResults(maxQuestions) ==
  {FetchError} \cup {[ok |-> TRUE, results |-> Questions(n)] : n \in 0..maxQuestions}

Range(s) == {s[i] : i \in 1..Len(s)}

---------------------------------------------------------------------------
(* QuizState *)

World == [state |-> state, dom |-> dom, env |-> env, threw |-> FALSE]

\* clearInterval of the interval this.timer refers to
clearTimer(w) == [w EXCEPT !.state.timer = FALSE]

reset(w) ==
  clearTimer([w EXCEPT !.state.currentQuestionIndex = 0,
                       !.state.score = 0,
                       !.state.streak = 0,
                       !.state.bestStreak = 0,
                       !.state.questionTimes = <<>>,
                       !.state.userAnswers = <<>>,
                       !.state.isAnswered = FALSE,
                       !.state.isQuizActive = FALSE])

Max(a, b) == IF a >= b THEN a ELSE b

\* incrementScore without score++
incrementScoreStreakOnly(w) ==
  [w EXCEPT !.state.streak = @ + 1,
            !.state.bestStreak = Max(@, w.state.streak + 1)]

\* incrementScore without the Math.max update of bestStreak
incrementScoreBestNotRaised(w) ==
  [w EXCEPT !.state.score = @ + 1,
            !.state.streak = @ + 1]

incrementScore(w) ==
  [w EXCEPT !.state.score = @ + 1,
            !.state.streak = @ + 1,
            !.state.bestStreak = Max(@, w.state.streak + 1)]

resetStreak(w) == [w EXCEPT !.state.streak = 0]

recordQuestionTime(w) ==
  IF w.state.questionStartTime
    THEN [w EXCEPT !.state.questionTimes =
            Append(@, Minus(w.state.settings.timePerQuestion, w.state.timeLeft))]
    ELSE w

\* Math.round(a / b) for b > 0: the nearest integer, halves towards +infinity
Round(a, b) == (2 * a + b) \div (2 * b)

RECURSIVE Sum(_)
Sum(s) == IF s = <<>> THEN 0 ELSE Plus(Head(s), Sum(Tail(s)))

\* getAverageTime without its empty-list return: Math.round(0 / 0) is NaN
getAverageTimeUnguarded(w) ==
  LET total == Sum(w.state.questionTimes)
  IN IF IsNaN(total) \/ Len(w.state.questionTimes) = 0 THEN NaN
     ELSE Round(total, Len(w.state.questionTimes))

getAverageTime(w) ==
  IF Len(w.state.questionTimes) = 0 THEN 0
  ELSE LET total == Sum(w.state.questionTimes)
       IN IF IsNaN(total) THEN NaN ELSE Round(total, Len(w.state.questionTimes))

\* CONFIG.PERFORMANCE_MESSAGES in the order Object.entries yields it
PERFORMANCE_MESSAGES ==
  << [key |-> "EXCELLENT", min |-> 90, class |-> "success"],
     [key |-> "VERY_GOOD", min |-> 80, class |-> "success"],
     [key |-> "GOOD", min |-> 70, class |-> "info"],
     [key |-> "FAIR", min |-> 60, class |-> "warning"],
     [key |-> "POOR", min |-> 0, class |-> "error"] >>

\* percentage > min in place of percentage >= min
PercentageAbove(score, total, min) ==
  IF total = 0 THEN score > 0 ELSE score * 100 > min * total

\* percentage >= min, for percentage = (score / total) * 100 left unrounded;
\* with total = 0 the quotient is NaN (score = 0) or Infinity (score > 0)
PercentageAtLeast(score, total, min) ==
  IF total = 0 THEN score > 0 ELSE score * 100 >= min * total

getPerformanceMessage(w) ==
  LET score == w.state.score
      total == Len(w.state.questions)
      hits == {i \in 1..Len(PERFORMANCE_MESSAGES) :
                 PercentageAtLeast(score, total, PERFORMANCE_MESSAGES[i].min)}
  IN IF hits = {} THEN PERFORMANCE_MESSAGES[Len(PERFORMANCE_MESSAGES)]
     ELSE PERFORMANCE_MESSAGES[CHOOSE i \in hits : \A j \in hits : i <= j]

\* the value of a division by zero that is not NaN
Infinity == 1000

\* Math.round((score / total) * 100), computed in IEEE doubles.  For total
\* in 1..50 and for total = 100 the double product lies on the other side
\* of a rounding boundary than the exact quotient in one case only:
\* (23 / 40) * 100 is 57.49999999999999, which rounds to 57 where 57.5
\* would round to 58.  The comparisons of getPerformanceMessage with 90,
\* 80, 70, 60 and 0 come out as on the exact quotient in all these cases.
RoundedPercentage(score, total) ==
  IF total = 0 THEN (IF score = 0 THEN NaN ELSE Infinity)
  ELSE IF score = 23 /\ total = 40 THEN 57
  ELSE Round(100 * score, total)

---------------------------------------------------------------------------
(* QuizApp *)

collectSettings(w, num, time) ==
  [w EXCEPT !.state.settings = [numQuestions |-> num, timePerQuestion |-> time]]

\* JSON.stringify of a number: NaN is written as null
stringify(x) == IF IsNaN(x) THEN Null ELSE ToString(x)

\* localStorage holds the JSON text of the settings under the one key
saveSettings(w) ==
  [w EXCEPT !.env.storage =
     <<[numQuestions |-> stringify(w.state.settings.numQuestions),
        timePerQuestion |-> stringify(w.state.settings.timePerQuestion)]>>]

validateSettings(w) ==
  LET numQuestions == w.state.settings.numQuestions
      timePerQuestion == w.state.settings.timePerQuestion
  IN IF Lt(numQuestions, MIN_QUESTIONS) \/ Gt(numQuestions, MAX_QUESTIONS) THEN FALSE
     ELSE IF Lt(timePerQuestion, MIN_TIME) \/ Gt(timePerQuestion, MAX_TIME) THEN FALSE
     ELSE TRUE

switchScreen(w, showClass) == [w EXCEPT !.dom.screen = showClass]

updateButtonStates(w) ==
  IF w.state.isAnswered
    THEN [w EXCEPT !.dom.nextShown = TRUE]
    ELSE [w EXCEPT !.dom.nextShown = FALSE,
                   !.dom.submitDisabled = (w.dom.selected = {})]

\* what showResults writes into the end screen
Summary(w) ==
  LET totalQuestions == Len(w.state.questions)
  IN [score |-> w.state.score,
      total |-> totalQuestions,
      percentage |-> RoundedPercentage(w.state.score, totalQuestions),
      incorrectCount |-> totalQuestions - w.state.score,
      avgTime |-> getAverageTime(w),
      bestStreak |-> w.state.bestStreak,
      tier |-> getPerformanceMessage(w).key]

showResults(w) == switchScreen(w, "end-screen")

endQuiz(w) == showResults(clearTimer([w EXCEPT !.state.isQuizActive = FALSE]))

\* state.timer is overwritten without clearInterval: an interval it still
\* referred to stays live with no handle left to cancel it.  Such intervals
\* run the same callback and none can ever be cancelled, so env.leaked
\* records only whether there is one.
startTimer(w) ==
  [w EXCEPT !.state.timeLeft = w.state.settings.timePerQuestion,
            !.env.leaked = @ \/ w.state.timer,
            !.state.timer = TRUE]

generateAnswers(w, question) ==
  [w EXCEPT !.dom.answers = Range(question.incorrect_answers) \cup {question.correct_answer},
            !.dom.selected = {}]

showQuestion(w, index) ==
  IF index >= Len(w.state.questions) THEN endQuiz(w)
  ELSE LET question == w.state.questions[index + 1]
           w1 == [w EXCEPT !.state.currentQuestionIndex = index,
                           !.state.isAnswered = FALSE,
                           !.state.questionStartTime = TRUE]
       IN startTimer(updateButtonStates(generateAnswers(w1, question)))

selectAnswerKeepsPrevious(w, selectedElement) ==
  IF w.state.isAnswered THEN w
  ELSE [w EXCEPT !.dom.selected = @ \cup {selectedElement},
                 !.dom.submitDisabled = FALSE]

selectAnswer(w, selectedElement) ==
  IF w.state.isAnswered THEN w
  ELSE [w EXCEPT !.dom.selected = {selectedElement},
                 !.dom.submitDisabled = FALSE]

\* this.state.questions[this.state.currentQuestionIndex] is undefined past
\* the end of the list; reading a property of it throws a TypeError
HasQuestion(w) == w.state.currentQuestionIndex < Len(w.state.questions)
CurrentQuestion(w) == w.state.questions[w.state.currentQuestionIndex + 1]
Throw(w) == [w EXCEPT !.threw = TRUE]

\* submitAnswer past its isAnswered guard (lines 697-749)
submitAnswerBody(w) ==
    LET w1 == recordQuestionTime(clearTimer([w EXCEPT !.state.isAnswered = TRUE]))
        selectedAnswer == w1.dom.selected
    IN IF selectedAnswer # {}
         THEN IF ~HasQuestion(w1) THEN Throw(w1)
              ELSE
                LET question == CurrentQuestion(w1)
                    answer == CHOOSE a \in selectedAnswer : TRUE
                    isCorrect == answer = question.correct_answer
                    w2 == [w1 EXCEPT !.state.userAnswers = Append(@,
                             [question |-> question.question,
                              userAnswer |-> answer,
                              correctAnswer |-> question.correct_answer,
                              isCorrect |-> isCorrect,
                              timeSpent |-> Minus(w1.state.settings.timePerQuestion,
                                                  w1.state.timeLeft)])]
                    w3 == IF isCorrect THEN incrementScore(w2) ELSE resetStreak(w2)
                IN updateButtonStates(w3)
         ELSE LET w2 == resetStreak(w1)
              IN IF ~HasQuestion(w2) THEN Throw(w2)
                 ELSE
                   LET question == CurrentQuestion(w2)
                       w3 == [w2 EXCEPT !.state.userAnswers = Append(@,
                                [question |-> question.question,
                                 userAnswer |-> Null,
                                 correctAnswer |-> question.correct_answer,
                                 isCorrect |-> FALSE,
                                 timeSpent |-> w2.state.settings.timePerQuestion])]
                   IN updateButtonStates(w3)

\* submitAnswer without its isAnswered guard
submitAnswerUnguarded(w) == submitAnswerBody(w)

submitAnswer(w) == IF w.state.isAnswered THEN w ELSE submitAnswerBody(w)

nextQuestion(w) ==
  LET nextIndex == w.state.currentQuestionIndex + 1
  IN IF nextIndex < Len(w.state.questions) THEN showQuestion(w, nextIndex)
     ELSE endQuiz(w)

\* skipQuestion without this.state.isAnswered = true
skipQuestionFlagNotSet(w) ==
  IF w.state.isAnswered THEN w
  ELSE
    LET w1 == resetStreak(clearTimer(w))
    IN IF ~HasQuestion(w1) THEN Throw(w1)
       ELSE
         LET question == CurrentQuestion(w1)
             w2 == [w1 EXCEPT !.state.userAnswers = Append(@,
                      [question |-> question.question,
                       userAnswer |-> Skipped,
                       correctAnswer |-> question.correct_answer,
                       isCorrect |-> FALSE,
                       timeSpent |-> 0])]
         IN updateButtonStates(w2)

skipQuestion(w) ==
  IF w.state.isAnswered THEN w
  ELSE
    LET w1 == resetStreak(clearTimer([w EXCEPT !.state.isAnswered = TRUE]))
    IN IF ~HasQuestion(w1) THEN Throw(w1)
       ELSE
         LET question == CurrentQuestion(w1)
             w2 == [w1 EXCEPT !.state.userAnswers = Append(@,
                      [question |-> question.question,
                       userAnswer |-> Skipped,
                       correctAnswer |-> question.correct_answer,
                       isCorrect |-> FALSE,
                       timeSpent |-> 0])]
         IN updateButtonStates(w2)

\* the callback setTimeout(..., 2000) of handleTimeUp
autoAdvance(w) ==
  IF w.state.currentQuestionIndex < Len(w.state.questions) - 1 THEN nextQuestion(w)
  ELSE endQuiz(w)

\* handleTimeUp that submits as if nothing were selected
handleTimeUpDropsSelection(w) ==
  IF w.state.isAnswered THEN w
  ELSE LET w1 == submitAnswer(clearTimer([w EXCEPT !.dom.selected = {}]))
       IN IF w1.threw THEN w1
          ELSE [w1 EXCEPT !.env.timeouts = @ + 1]

\* handleTimeUp without the delayed auto-advance
handleTimeUpNoAdvance(w) ==
  IF w.state.isAnswered THEN w
  ELSE submitAnswer(clearTimer(w))

handleTimeUp(w) ==
  IF w.state.isAnswered THEN w
  ELSE LET w1 == submitAnswer(clearTimer(w))
       IN IF w1.threw THEN w1
          ELSE [w1 EXCEPT !.env.timeouts = @ + 1]

\* the callback of setInterval(..., 1000) in startTimer
timerCallback(w) ==
  LET w1 == [w EXCEPT !.state.timeLeft = Minus(@, 1)]
  IN IF Le(w1.state.timeLeft, 0) THEN handleTimeUp(w1) ELSE w1

quitQuiz(w) == switchScreen(reset(w), "start-screen")

restartQuiz(w) == switchScreen(reset(w), "start-screen")

\* startQuiz up to the await: returns before the fetch when validation fails
startQuizSavesValidOnly(w, num, time) ==
  LET w1 == collectSettings(w, num, time)
  IN IF ~validateSettings(w1) THEN w1
     ELSE [saveSettings(w1) EXCEPT !.env.fetches = @ + 1]

startQuizBegin(w, num, time) ==
  LET w1 == saveSettings(collectSettings(w, num, time))
  IN IF ~validateSettings(w1) THEN w1
     ELSE [w1 EXCEPT !.env.fetches = @ + 1]

startQuizResumeChecksLate(w, result) ==
  LET w0 == [w EXCEPT !.env.fetches = @ - 1]
  IN IF ~result.ok THEN w0
     ELSE LET w1 == [w0 EXCEPT !.state.questions = result.results]
              w2 == [reset(w1) EXCEPT !.state.isQuizActive = TRUE]
          IN showQuestion(switchScreen(w2, "quiz"), 0)

\* startQuiz from the await on: result is what fetchQuestions resolved to,
\* or FetchError when it threw
startQuizResume(w, result) ==
  LET w0 == [w EXCEPT !.env.fetches = @ - 1]
  IN IF ~result.ok THEN w0
     ELSE LET w1 == [w0 EXCEPT !.state.questions = result.results]
          IN IF Len(w1.state.questions) = 0 THEN w1
             ELSE LET w2 == [reset(w1) EXCEPT !.state.isQuizActive = TRUE]
                  IN showQuestion(switchScreen(w2, "quiz"), 0)

---------------------------------------------------------------------------
(* Initial state: new QuizState(), the start screen, nothing scheduled *)

Init ==
  /\ state = [questions |-> <<>>,
              currentQuestionIndex |-> 0,
              score |-> 0,
              streak |-> 0,
              bestStreak |-> 0,
              timeLeft |-> 0,
              timer |-> FALSE,
              questionStartTime |-> FALSE,
              questionTimes |-> <<>>,
              userAnswers |-> <<>>,
              settings |-> [numQuestions |-> DEFAULT_NUM, timePerQuestion |-> DEFAULT_TIME],
              isAnswered |-> FALSE,
              isQuizActive |-> FALSE]
  /\ dom = [screen |-> "start-screen",
            answers |-> {},
            selected |-> {},
            nextShown |-> FALSE,
            submitDisabled |-> TRUE]
  /\ env = [leaked |-> FALSE, timeouts |-> 0, fetches |-> 0, storage |-> <<>>]

---------------------------------------------------------------------------
(* Events.  b is the record of inputs and bounds an event is followed     *)
(* within.                                                                *)

Bounds == [nums |-> NumInputs,
           times |-> TimeInputs,
           questions |-> MaxQuestions,
           timeouts |-> MaxTimeouts,
           fetches |-> MaxFetches,
           overtime |-> MaxOvertime]

Bounded(w, b) ==
  /\ w.env.timeouts <= b.timeouts
  /\ w.env.fetches <= b.fetches
  /\ IsNaN(w.state.timeLeft) \/ w.state.timeLeft >= 0 - b.overtime

Apply(w, b) ==
  /\ Bounded(w, b)
  /\ state' = w.state
  /\ dom' = w.dom
  /\ env' = w.env

\* elements of a screen take clicks only while that screen is shown
OnScreen(screen) == dom.screen = screen

\* start-btn click / quiz-settings submit
StartClick(b) ==
  /\ OnScreen("start-screen")
  /\ \E num \in b.nums, time \in b.times :
       Apply(startQuizBegin(World, num, time), b)

\* the awaited fetchQuestions settles
FetchSettles(b) ==
  /\ env.fetches > 0
  /\ \E result \in FetchResults(b.questions) : Apply(startQuizResume(World, result), b)

\* click, Enter or Space on an answer element (a click that pointer-events:
\* none swallows after a submit would reach selectAnswer with isAnswered set)
AnswerClick(b) ==
  /\ OnScreen("quiz")
  /\ \E el \in dom.answers \cap Choices : Apply(selectAnswer(World, el), b)

\* handleKeyboard, keys 1-4: click() on the n-th answer element
NumberKey(b) ==
  /\ state.isQuizActive /\ ~state.isAnswered
  /\ \E el \in dom.answers \cap Choices : Apply(selectAnswer(World, el), b)

\* submit-btn click: the button is shown and enabled
SubmitClick(b) ==
  /\ OnScreen("quiz")
  /\ ~dom.nextShown /\ ~dom.submitDisabled
  /\ Apply(submitAnswer(World), b)

\* handleKeyboard, Ctrl/Cmd+Enter
CtrlEnter(b) ==
  /\ state.isQuizActive /\ ~state.isAnswered
  /\ Apply(submitAnswer(World), b)

\* next-btn click: the button is shown
NextClick(b) ==
  /\ OnScreen("quiz")
  /\ dom.nextShown
  /\ Apply(nextQuestion(World), b)

\* handleKeyboard, Ctrl/Cmd+N
CtrlN(b) ==
  /\ state.isAnswered
  /\ Apply(nextQuestion(World), b)

\* skip-btn click: the button is shown
SkipClick(b) ==
  /\ OnScreen("quiz")
  /\ ~dom.nextShown
  /\ Apply(skipQuestion(World), b)

\* quit-btn click, confirmed
QuitClick(b) ==
  /\ OnScreen("quiz")
  /\ Apply(quitQuiz(World), b)

\* restart-btn click
RestartClick(b) ==
  /\ OnScreen("end-screen")
  /\ Apply(restartQuiz(World), b)

\* a tick of the interval state.timer refers to
TimerTick(b) ==
  /\ state.timer
  /\ Apply(timerCallback(World), b)

\* a tick of an interval that is live but no longer referred to
LeakedTick(b) ==
  /\ env.leaked
  /\ Apply(timerCallback(World), b)

\* a delayed auto-advance scheduled by handleTimeUp comes due
AutoAdvance(b) ==
  /\ env.timeouts > 0
  /\ Apply(autoAdvance([World EXCEPT !.env.timeouts = @ - 1]), b)

Next ==
  \/ StartClick(Bounds)
  \/ FetchSettles(Bounds)
  \/ AnswerClick(Bounds)
  \/ NumberKey(Bounds)
  \/ SubmitClick(Bounds)
  \/ CtrlEnter(Bounds)
  \/ NextClick(Bounds)
  \/ CtrlN(Bounds)
  \/ SkipClick(Bounds)
  \/ QuitClick(Bounds)
  \/ RestartClick(Bounds)
  \/ TimerTick(Bounds)
  \/ LeakedTick(Bounds)
  \/ AutoAdvance(Bounds)

Spec == Init /\ [][Next]_vars

(* One session, started with valid settings, in which the user only       *)
(* presses Next: the countdown, its expiry and the delayed auto-advance   *)
(* against the Next button, over question lists two longer than Spec      *)
(* follows.                                                               *)

SessionBounds == [Bounds EXCEPT !.times = {MIN_TIME}, !.questions = MaxQuestions + 2]

NextSession ==
  \/ StartClick(SessionBounds)
  \/ FetchSettles(SessionBounds)
  \/ NextClick(SessionBounds)
  \/ TimerTick(SessionBounds)
  \/ LeakedTick(SessionBounds)
  \/ AutoAdvance(SessionBounds)

SpecSession == Init /\ [][NextSession]_vars

(* Every event, with one more fetch in flight than Spec follows: a second *)
(* start while the first fetch is outstanding.                            *)

OverlapBounds == [Bounds EXCEPT !.fetches = MaxFetches + 1]

NextOverlap ==
  \/ StartClick(OverlapBounds)
  \/ FetchSettles(OverlapBounds)
  \/ AnswerClick(OverlapBounds)
  \/ NumberKey(OverlapBounds)
  \/ SubmitClick(OverlapBounds)
  \/ CtrlEnter(OverlapBounds)
  \/ NextClick(OverlapBounds)
  \/ CtrlN(OverlapBounds)
  \/ SkipClick(OverlapBounds)
  \/ QuitClick(OverlapBounds)
  \/ RestartClick(OverlapBounds)
  \/ TimerTick(OverlapBounds)
  \/ LeakedTick(OverlapBounds)
  \/ AutoAdvance(OverlapBounds)

SpecOverlap == Init /\ [][NextOverlap]_vars

(* One start with valid settings and no input after it: the fetch, the   *)
(* ticks of the countdown and the delayed auto-advance.  The callbacks   *)
(* of setInterval and setTimeout are run by the event loop whenever they *)
(* are due, hence the weak fairness on both.                             *)

HandsOffBounds ==
  [Bounds EXCEPT !.times = {MIN_TIME, MIN_TIME + 1},
                 !.questions = MaxQuestions + 2,
                 !.fetches = 1]

NextHandsOff ==
  \/ StartClick(HandsOffBounds)
  \/ FetchSettles(HandsOffBounds)
  \/ TimerTick(HandsOffBounds)
  \/ AutoAdvance(HandsOffBounds)

SpecHandsOff ==
  /\ Init
  /\ [][NextHandsOff]_vars
  /\ WF_vars(TimerTick(HandsOffBounds))
  /\ WF_vars(AutoAdvance(HandsOffBounds))

(* Sessions in which the user resolves every question within its first   *)
(* second: select, submit, skip, Next, quit and restart, no tick.        *)

NextAnswers ==
  \/ StartClick(Bounds)
  \/ FetchSettles(Bounds)
  \/ AnswerClick(Bounds)
  \/ SubmitClick(Bounds)
  \/ SkipClick(Bounds)
  \/ NextClick(Bounds)
  \/ QuitClick(Bounds)
  \/ RestartClick(Bounds)

SpecAnswers == Init /\ [][NextAnswers]_vars

(* The setup form with every kind of value in its two numeric fields:    *)
(* left empty or non-numeric (parseInt yields NaN), below, at and above  *)
(* the limits; then the fetch and the countdown of the first question.   *)

FormBounds ==
  [Bounds EXCEPT !.nums = {NaN, MIN_QUESTIONS - 1, MIN_QUESTIONS, MAX_QUESTIONS, MAX_QUESTIONS + 1},
                 !.times = {NaN, MIN_TIME - 1, MIN_TIME, MAX_TIME + 1}]

NextForm ==
  \/ StartClick(FormBounds)
  \/ FetchSettles(FormBounds)
  \/ TimerTick(FormBounds)
  \/ AutoAdvance(FormBounds)

SpecForm == Init /\ [][NextForm]_vars

(* fetchQuestions step by step.  env.request is the one call in flight:   *)
(* phase "fetch" while await fetch() is pending (it resolves when the     *)
(* response headers arrive), "json" while await response.json() is        *)
(* pending (the body is read and decoded), "settled" once the call has    *)
(* returned or thrown; elapsed counts the seconds since the call;         *)
(* timeoutId is whether the abort timer is armed; error is the message    *)
(* startQuiz catches.                                                     *)

\* CONFIG.API_TIMEOUT, 10000 ms, in seconds
API_TIMEOUT == 10

TimedOutMessage == "Request timed out. Please check your internet connection and try again."
HttpErrorMessage == "HTTP error! status"
EmptyResultMessage == "No questions received from the server"

\* response codes of the provider: 0 success, 1 no results, 5 rate limit
ResponseCodes == {0, 1, 5}

getApiErrorMessage(responseCode) ==
  IF responseCode = 1 THEN "No results found. Try different settings."
  ELSE IF responseCode = 5 THEN "Rate limit exceeded. Please wait a moment and try again."
  ELSE "An unknown error occurred."

\* fetchQuestions throws: startQuiz resumes in its catch with the message
fetchQuestionsThrows(w, message) ==
  [startQuizResume(w, FetchError) EXCEPT !.env.request.phase = "settled",
                                         !.env.request.timeoutId = FALSE,
                                         !.env.request.error = message]

\* fetchQuestions returns the decoded list: startQuiz resumes after its await
fetchQuestionsReturns(w, results) ==
  [startQuizResume(w, [ok |-> TRUE, results |-> results])
     EXCEPT !.env.request.phase = "settled",
            !.env.request.error = IF Len(results) = 0 THEN EmptyResultMessage ELSE ""]

\* the abort timer fires: fetch() rejects with AbortError (lines 179, 208-210)
abortTimerFires(w) == fetchQuestionsThrows(w, TimedOutMessage)

\* fetch() resolves with the response headers (lines 181-192)
responseArrives(w, ok) ==
  LET w1 == [w EXCEPT !.env.request.timeoutId = FALSE]
  IN IF ~ok THEN fetchQuestionsThrows(w1, HttpErrorMessage)
     ELSE [w1 EXCEPT !.env.request.phase = "json"]

\* response.json() resolves with the decoded body (lines 194-205)
bodyDecoded(w, response_code, results) ==
  IF response_code # 0 THEN fetchQuestionsThrows(w, getApiErrorMessage(response_code))
  ELSE fetchQuestionsReturns(w, results)

\* Start was clicked with settings that pass validation and the call is made
InitFetch ==
  /\ \E num \in {MIN_QUESTIONS, MAX_QUESTIONS}, time \in {MIN_TIME, MAX_TIME} :
       LET settings == [numQuestions |-> num, timePerQuestion |-> time]
       IN /\ state = [questions |-> <<>>,
                      currentQuestionIndex |-> 0,
                      score |-> 0,
                      streak |-> 0,
                      bestStreak |-> 0,
                      timeLeft |-> 0,
                      timer |-> FALSE,
                      questionStartTime |-> FALSE,
                      questionTimes |-> <<>>,
                      userAnswers |-> <<>>,
                      settings |-> settings,
                      isAnswered |-> FALSE,
                      isQuizActive |-> FALSE]
          /\ env = [leaked |-> FALSE, timeouts |-> 0, fetches |-> 1,
                    storage |-> <<[numQuestions |-> stringify(num),
                                   timePerQuestion |-> stringify(time)]>>,
                    request |-> [phase |-> "fetch", elapsed |-> 0,
                                 timeoutId |-> TRUE, error |-> ""]]
  /\ dom = [screen |-> "start-screen",
            answers |-> {},
            selected |-> {},
            nextShown |-> FALSE,
            submitDisabled |-> TRUE]

\* a second passes while the call is pending; a timer that is due fires
\* before more time passes
SecondPasses(b) ==
  /\ env.request.phase # "settled"
  /\ env.request.elapsed < API_TIMEOUT + b.overtime
  /\ ~(env.request.timeoutId /\ env.request.elapsed >= API_TIMEOUT)
  /\ Apply([World EXCEPT !.env.request.elapsed = @ + 1], b)

AbortTimerFires(b) ==
  /\ env.request.phase = "fetch"
  /\ env.request.timeoutId
  /\ env.request.elapsed >= API_TIMEOUT
  /\ Apply(abortTimerFires(World), b)

ResponseArrives(b) ==
  /\ env.request.phase = "fetch"
  /\ \E ok \in BOOLEAN : Apply(responseArrives(World, ok), b)

BodyDecoded(b) ==
  /\ env.request.phase = "json"
  /\ \E response_code \in ResponseCodes, n \in 0..b.questions :
       Apply(bodyDecoded(World, response_code, Questions(n)), b)

NextFetch ==
  \/ SecondPasses(Bounds)
  \/ AbortTimerFires(Bounds)
  \/ ResponseArrives(Bounds)
  \/ BodyDecoded(Bounds)

SpecFetch == InitFetch /\ [][NextFetch]_vars

(* generateAnswers step by step, for the first question of a session     *)
(* that has just been started.  env.shuffle is the call of shuffleArray: *)
(* array is its argument, shuffled the copy it permutes, i the loop      *)
(* variable, done whether generateAnswers has rendered the result;       *)
(* dom.order is the sequence of the answer elements in the page.         *)

\* [...question.incorrect_answers, question.correct_answer]
allAnswers(question) == Append(question.incorrect_answers, question.correct_answer)

\* [shuffled[i], shuffled[j]] = [shuffled[j], shuffled[i]], indices from 0
Swap(shuffled, i, j) ==
  [shuffled EXCEPT ![i + 1] = shuffled[j + 1], ![j + 1] = shuffled[i + 1]]

\* the values of Math.floor(Math.random() * (i + 1)) but never i itself
RandomIndexBelow(i) == 0..(i - 1)

\* the values of Math.floor(Math.random() * (i + 1)), Math.random() in [0, 1)
RandomIndex(i) == 0..i

\* the draws of one call on an array of n elements: one j for i = n-1 .. 1
RandomDraws(n) == {random \in [1..(n - 1) -> 0..(n - 1)] : \A i \in 1..(n - 1) : random[i] \in RandomIndex(i)}

RECURSIVE shuffleLoop(_, _, _)
shuffleLoop(shuffled, i, random) ==
  IF i > 0 THEN shuffleLoop(Swap(shuffled, i, random[i]), i - 1, random)
  ELSE shuffled

\* shuffleArray with the values Math.random() gave
shuffleArray(array, random) == shuffleLoop(array, Len(array) - 1, random)

\* startQuiz has reset the state for a fetched list and showQuestion(0) is
\* at its call of generateAnswers, which has called shuffleArray
InitShuffle ==
  \E n \in 1..Bounds.questions :
    LET array == allAnswers(Question(1))
    IN /\ state = [questions |-> Questions(n),
                   currentQuestionIndex |-> 0,
                   score |-> 0,
                   streak |-> 0,
                   bestStreak |-> 0,
                   timeLeft |-> 0,
                   timer |-> FALSE,
                   questionStartTime |-> TRUE,
                   questionTimes |-> <<>>,
                   userAnswers |-> <<>>,
                   settings |-> [numQuestions |-> n, timePerQuestion |-> MIN_TIME],
                   isAnswered |-> FALSE,
                   isQuizActive |-> TRUE]
       /\ dom = [screen |-> "quiz",
                 answers |-> {},
                 selected |-> {},
                 nextShown |-> FALSE,
                 submitDisabled |-> TRUE,
                 order |-> <<>>]
       /\ env = [leaked |-> FALSE, timeouts |-> 0, fetches |-> 0,
                 storage |-> <<[numQuestions |-> stringify(n),
                                timePerQuestion |-> stringify(MIN_TIME)]>>,
                 shuffle |-> [array |-> array, shuffled |-> array,
                              i |-> Len(array) - 1, done |-> FALSE]]

\* one turn of the loop of shuffleArray
ShuffleStep(b) ==
  /\ ~env.shuffle.done
  /\ env.shuffle.i > 0
  /\ \E j \in RandomIndex(env.shuffle.i) :
       Apply([World EXCEPT !.env.shuffle.shuffled = Swap(@, env.shuffle.i, j),
                           !.env.shuffle.i = @ - 1], b)

\* the loop is over: generateAnswers appends one element per answer in the
\* shuffled order and showQuestion goes on to the buttons and the timer
ShuffleRendered(b) ==
  /\ ~env.shuffle.done
  /\ env.shuffle.i = 0
  /\ LET w == startTimer(updateButtonStates(generateAnswers(World, CurrentQuestion(World))))
     IN Apply([w EXCEPT !.dom.order = env.shuffle.shuffled,
                        !.env.shuffle.done = TRUE], b)

NextShuffle ==
  \/ ShuffleStep(Bounds)
  \/ ShuffleRendered(Bounds)

SpecShuffle == InitShuffle /\ [][NextShuffle]_vars

(* The last question of a quiz has just been resolved and Next ends the   *)
(* quiz: every list length validateSettings lets through with every      *)
(* score, and a list of PERCENT questions, on which the score is the     *)
(* percentage itself.                                                    *)

PERCENT == 100

ResultTotals == (MIN_QUESTIONS..MAX_QUESTIONS) \cup {PERCENT}

\* n questions submitted one second into each countdown, the first s of
\* them with the correct answer selected and the others with a wrong one
InitResults ==
  \E n \in ResultTotals : \E s \in 0..n :
    LET settings == [numQuestions |-> IF n <= MAX_QUESTIONS THEN n ELSE MAX_QUESTIONS,
                     timePerQuestion |-> MIN_TIME]
    IN /\ state = [questions |-> Questions(n),
                   currentQuestionIndex |-> n - 1,
                   score |-> s,
                   streak |-> IF s = n THEN n ELSE 0,
                   bestStreak |-> s,
                   timeLeft |-> MIN_TIME - 1,
                   timer |-> FALSE,
                   questionStartTime |-> TRUE,
                   questionTimes |-> [k \in 1..n |-> 1],
                   userAnswers |-> [k \in 1..n |->
                     [question |-> k,
                      userAnswer |-> IF k <= s THEN "C" ELSE "W1",
                      correctAnswer |-> "C",
                      isCorrect |-> k <= s,
                      timeSpent |-> 1]],
                   settings |-> settings,
                   isAnswered |-> TRUE,
                   isQuizActive |-> TRUE]
       /\ dom = [screen |-> "quiz",
                 answers |-> {"C", "W1", "W2", "W3"},
                 selected |-> IF s = n THEN {"C"} ELSE {"W1"},
                 nextShown |-> TRUE,
                 submitDisabled |-> FALSE]
       /\ env = [leaked |-> FALSE, timeouts |-> 0, fetches |-> 0,
                 storage |-> <<[numQuestions |-> stringify(settings.numQuestions),
                               timePerQuestion |-> stringify(settings.timePerQuestion)]>>]

NextResults == NextClick(Bounds)

SpecResults == InitResults /\ [][NextResults]_vars

---------------------------------------------------------------------------
(* Properties *)

answers == state.userAnswers

Last(seq) == seq[Len(seq)]

Idle == dom.screen = "start-screen"
Completed == dom.screen = "end-screen"

\* the settings are in the ranges validateSettings names
ValidSettings ==
  /\ state.settings.numQuestions \in MIN_QUESTIONS..MAX_QUESTIONS
  /\ state.settings.timePerQuestion \in MIN_TIME..MAX_TIME

\* C1: no two records of answers are records of the same question, however
\* select, submit, skip, ticks, Next and the delayed auto-advance interleave
C1_OneRecordPerQuestion ==
  \A i, j \in 1..Len(answers) :
    i # j => answers[i].question # answers[j].question

\* two questions resolved on different paths (a timeout with nothing
\* selected, then a skip) while a delayed auto-advance is still pending
C1_Witness ==
  /\ Len(answers) = 2
  /\ answers[1].userAnswer = Null
  /\ answers[2].userAnswer = Skipped
  /\ env.timeouts > 0

\* C2: with valid settings, whenever the results are shown every question
\* of the list has a record
C2_CompletedHasAllRecords ==
  Completed /\ ValidSettings => Len(answers) = Len(state.questions)

\* C3: the question index moves on, or the quiz screen gives way to the
\* results, only from a state in which the current question is resolved
C3_AdvanceOnlyWhenAnswered ==
  [][(\/ state.currentQuestionIndex' = state.currentQuestionIndex + 1
      \/ dom.screen = "quiz" /\ dom.screen' = "end-screen")
     => state.isAnswered]_vars

\* C4: no countdown is ever started while an earlier one is still live
\* (env.leaked is set by exactly such a start)
C4_SingleCountdown == ~env.leaked

\* C5: while the current question is resolved, or the session is idle or
\* completed, no countdown interval is live
C5_NoCountdownOutsideActive ==
  state.isAnswered \/ Idle \/ Completed => ~state.timer /\ ~env.leaked

\* answers, score, streak and bestStreak of world w are those of the state
SameTally(w) ==
  /\ w.state.userAnswers = state.userAnswers
  /\ w.state.score = state.score
  /\ w.state.streak = state.streak
  /\ w.state.bestStreak = state.bestStreak

\* C6: on a resolved question submitAnswer, handleTimeUp and skipQuestion
\* leave answers, score, streak and bestStreak as they are, and so does a
\* countdown tick that reaches zero
C6_IdempotentOnceAnswered ==
  state.isAnswered =>
    /\ SameTally(submitAnswer(World))
    /\ SameTally(handleTimeUp(World))
    /\ SameTally(skipQuestion(World))
    /\ SameTally(timerCallback(World))

\* a skipped question on which a countdown that is still live has since
\* run down to zero, so that its tick called handleTimeUp
C6_Witness ==
  /\ state.isAnswered
  /\ env.leaked
  /\ Le(state.timeLeft, 0)
  /\ Len(answers) > 0
  /\ Last(answers).userAnswer = Skipped

\* C7: while the setup screen is shown no countdown is live, no record
\* exists and no question past the first is current
C7_IdleStaysIdle ==
  Idle => /\ ~state.timer
          /\ answers = <<>>
          /\ state.currentQuestionIndex = 0
          /\ ~state.isAnswered

\* C8: as long as the results stay shown, answers, score, streak, bestStreak
\* and the question index do not change and no countdown is started
C8_CompletedIsTerminal ==
  [][Completed /\ Completed' =>
       /\ state.userAnswers' = state.userAnswers
       /\ state.score' = state.score
       /\ state.streak' = state.streak
       /\ state.bestStreak' = state.bestStreak
       /\ state.currentQuestionIndex' = state.currentQuestionIndex
       /\ ~state.timer']_vars

\* C9: score is the number of records whose isCorrect is true
C9_ScoreCountsCorrect ==
  state.score = Cardinality({i \in 1..Len(answers) : answers[i].isCorrect})

\* a correct answer followed by a resolution that is not correct
C9_Witness ==
  /\ Len(answers) = 2
  /\ answers[1].isCorrect
  /\ ~answers[2].isCorrect
  /\ state.score = 1

\* the length of the longest suffix of seq made of isCorrect records
RECURSIVE CorrectSuffix(_)
CorrectSuffix(seq) ==
  IF seq = <<>> \/ ~Last(seq).isCorrect THEN 0
  ELSE 1 + CorrectSuffix(SubSeq(seq, 1, Len(seq) - 1))

\* C10: streak is the length of the longest suffix of answers made of
\* isCorrect records
C10_StreakIsCorrectSuffix == state.streak = CorrectSuffix(answers)

\* a step that begins or ends a session: reset has run
SessionReset ==
  /\ state.userAnswers' = <<>>
  /\ state.score' = 0
  /\ state.streak' = 0
  /\ state.bestStreak' = 0

\* C11: on every step that is not the reset of a start, quit or restart
\* bestStreak becomes the larger of its old value and the new streak; it is
\* 0 with streak after a reset, so it never decreases within a session and
\* is the maximum streak has taken since the start
C11_BestStreakIsRunningMax ==
  [][SessionReset \/ state.bestStreak' = Max(state.bestStreak, state.streak')]_vars

\* a streak of one that a later incorrect resolution has broken
C11_Witness ==
  /\ state.bestStreak = 1
  /\ state.streak = 0
  /\ Len(answers) = 2
  /\ answers[1].isCorrect

\* C12: in a session (a question or the results shown) the index is within
\* the list, the k-th record is the record of the k-th question, and there
\* are currentQuestionIndex records while the current question is
\* unresolved and one more once it is resolved
C12_AnswersFollowIndex ==
  ~Idle =>
    /\ state.currentQuestionIndex \in 0..Len(state.questions)
    /\ Len(answers) <= Len(state.questions)
    /\ \A k \in 1..Len(answers) : answers[k].question = state.questions[k].question
    /\ Len(answers) = state.currentQuestionIndex + (IF state.isAnswered THEN 1 ELSE 0)

\* the current question has a record in answers
CurrentResolved ==
  /\ HasQuestion(World)
  /\ \E k \in 1..Len(answers) : answers[k].question = CurrentQuestion(World).question

\* C13: while a question is shown isAnswered is true exactly when that
\* question has its record, and it is false while the results or the setup
\* screen are shown
C13_AnsweredExactlyWhenResolved ==
  /\ OnScreen("quiz") => (state.isAnswered <=> CurrentResolved)
  /\ Completed \/ Idle => ~state.isAnswered

\* C14: a quit (the quiz screen gives way to the setup screen) leaves no
\* countdown live, the index, score, streak and bestStreak at 0, answers
\* empty, isAnswered and isQuizActive false, and shows no results
C14_QuitLeavesIdle ==
  [][OnScreen("quiz") /\ dom.screen' = "start-screen" =>
       /\ ~state.timer' /\ ~env.leaked'
       /\ state.currentQuestionIndex' = 0
       /\ state.score' = 0
       /\ state.streak' = 0
       /\ state.bestStreak' = 0
       /\ state.userAnswers' = <<>>
       /\ ~state.isAnswered'
       /\ ~state.isQuizActive']_vars

\* C15: a fetch that settles while a question is shown was started before
\* the start that this session began with, so it has been superseded (or
\* the session it was started for has been quit): it changes neither the
\* session state nor the document
C15_StaleFetchIgnored ==
  [][OnScreen("quiz") /\ env.fetches' < env.fetches =>
       /\ state' = state
       /\ dom' = dom]_vars

RecordAdded ==
  /\ Len(state.userAnswers') = Len(state.userAnswers) + 1
  /\ SubSeq(state.userAnswers', 1, Len(state.userAnswers)) = state.userAnswers

\* C17: the record a submit creates (by the button, by Ctrl+Enter or by the
\* countdown, with or without a selection) has timeSpent = timePerQuestion
\* - timeLeft, timeLeft being the countdown value the submit ran with
C17_TimeSpentIsElapsed ==
  [][RecordAdded /\ Last(state.userAnswers').userAnswer # Skipped =>
       Last(state.userAnswers').timeSpent =
         Minus(state.settings.timePerQuestion', state.timeLeft')]_vars

\* C18: on an unresolved question skipQuestion leaves no countdown live and
\* adds one record with userAnswer "Skipped", isCorrect false and timeSpent
\* 0, whatever is selected and whatever timeLeft is; streak becomes 0, score
\* and bestStreak stay, isAnswered is set
C18_SkipRecordsSkipped ==
  ~state.isAnswered /\ HasQuestion(World) =>
    LET s == skipQuestion(World)
        r == Last(s.state.userAnswers)
    IN /\ ~s.state.timer /\ ~s.env.leaked
       /\ Len(s.state.userAnswers) = Len(answers) + 1
       /\ r.userAnswer = Skipped
       /\ ~r.isCorrect
       /\ r.timeSpent = 0
       /\ s.state.streak = 0
       /\ s.state.score = state.score
       /\ s.state.bestStreak = state.bestStreak
       /\ s.state.isAnswered

\* C19: a record with userAnswer null is added only by a step on which the
\* countdown has run out with nothing selected, and a record whose
\* userAnswer is neither null nor "Skipped" holds the selected answer
C19_NullOnlyOnExpiry ==
  [][RecordAdded =>
       LET r == Last(state.userAnswers')
       IN /\ r.userAnswer = Null => dom.selected = {} /\ Le(state.timeLeft', 0)
          /\ r.userAnswer \notin {Null, Skipped} => dom.selected = {r.userAnswer}]_vars

RECURSIVE SumTimeSpent(_)
SumTimeSpent(seq) ==
  IF seq = <<>> THEN 0 ELSE Plus(Head(seq).timeSpent, SumTimeSpent(Tail(seq)))

\* round(mean of timeSpent over the records of seq), 0 when there is none
MeanTimeSpent(seq) ==
  IF seq = <<>> THEN 0
  ELSE LET total == SumTimeSpent(seq)
       IN IF IsNaN(total) THEN NaN ELSE Round(total, Len(seq))

\* C20: the average time the results show is the rounded mean of timeSpent
\* over all records of answers
C20_AverageOverAllRecords ==
  Completed => Summary(World).avgTime = MeanTimeSpent(answers)

\* C21: while no question time is recorded the average time, as computed
\* and as shown on the results, is 0; and a skip records no question time,
\* so a session of skips alone has none
C21_AverageZeroWhenNoTime ==
  /\ state.questionTimes = <<>> =>
       /\ getAverageTime(World) = 0
       /\ Summary(World).avgTime = 0
  /\ ~state.isAnswered /\ HasQuestion(World) =>
       skipQuestion(World).state.questionTimes = state.questionTimes

\* the results of a session in which both questions were skipped
C21_Witness ==
  /\ Completed
  /\ Len(answers) = 2
  /\ \A k \in 1..Len(answers) : answers[k].userAnswer = Skipped
  /\ state.questionTimes = <<>>

\* the key of the first entry of the table whose minimum is <= p
TierFor(p) ==
  LET hits == {i \in 1..Len(PERFORMANCE_MESSAGES) : PERFORMANCE_MESSAGES[i].min <= p}
  IN PERFORMANCE_MESSAGES[CHOOSE i \in hits : \A j \in hits : i <= j].key

\* C22: on the results of a list of 1..50 questions the tier shown is the
\* tier of the rounded percentage shown beside it, and that percentage is
\* round(100 * score / len(questions))
C22_TierOfShownPercentage ==
  Completed /\ Len(state.questions) \in MIN_QUESTIONS..MAX_QUESTIONS =>
    /\ Summary(World).percentage = Round(PERCENT * state.score, Len(state.questions))
    /\ Summary(World).tier = TierFor(Summary(World).percentage)

\* the key of the entry of the table with the largest minimum that is <= p
LargestMinTier(p) ==
  LET fits == {i \in 1..Len(PERFORMANCE_MESSAGES) : PERFORMANCE_MESSAGES[i].min <= p}
      best == CHOOSE i \in fits :
                \A j \in fits : PERFORMANCE_MESSAGES[j].min <= PERFORMANCE_MESSAGES[i].min
  IN PERFORMANCE_MESSAGES[best].key

\* C23: on a list of 100 questions, where the score p is the percentage,
\* getPerformanceMessage returns for every p in 0..100 the entry with the
\* largest minimum <= p: the 70 entry for 75, the 90 entry for 90 and the
\* catch-all entry for 59
C23_TierLookup ==
  Len(state.questions) = PERCENT =>
    LET p == state.score
        tier == getPerformanceMessage(World)
    IN /\ p \in 0..PERCENT
       /\ tier.key = LargestMinTier(p)
       /\ tier.min <= p
       /\ p = 75 => tier.key = "GOOD" /\ tier.min = 70
       /\ p = 90 => tier.key = "EXCELLENT" /\ tier.min = 90
       /\ p = 59 => tier.key = "POOR" /\ tier.min = 0

\* the results of 75 correct answers out of 100 show the 70 tier
C23_Witness ==
  /\ Completed
  /\ Len(state.questions) = PERCENT
  /\ state.score = 75
  /\ getPerformanceMessage(World).key = "GOOD"

\* C24: a fetch is issued only by a start whose questionCount is in 1..50
\* and whose timePerQuestion is in 5..300, and no countdown runs and no
\* session is active on settings outside these ranges
C24_InvalidSettingsRejected ==
  [][/\ env.fetches' > env.fetches => ValidSettings'
     /\ ~ValidSettings' => ~state.timer' /\ ~state.isQuizActive']_vars

\* the JSON text of a settings record as saveToStorage writes it
Stored(settings) ==
  [numQuestions |-> stringify(settings.numQuestions),
   timePerQuestion |-> stringify(settings.timePerQuestion)]

\* C25: the Preference Store holds the settings of the last start attempt,
\* whether they passed validation or not and whatever became of the fetch;
\* it is empty only while no start was attempted, and validation leaves the
\* collected settings as typed
C25_SettingsSavedBeforeValidation ==
  /\ env.storage = <<>> =>
       /\ state.settings = [numQuestions |-> DEFAULT_NUM, timePerQuestion |-> DEFAULT_TIME]
       /\ env.fetches = 0
  /\ env.storage # <<>> => env.storage = <<Stored(state.settings)>>
  /\ \A num \in FormBounds.nums, time \in FormBounds.times :
       /\ startQuizBegin(World, num, time).state.settings
            = [numQuestions |-> num, timePerQuestion |-> time]
       /\ startQuizBegin(World, num, time).env.storage
            = <<Stored([numQuestions |-> num, timePerQuestion |-> time])>>

\* a start whose time was below the limit was refused and its values saved
C25_Witness ==
  /\ Idle /\ env.fetches = 0 /\ ~state.isQuizActive
  /\ state.settings.timePerQuestion = MIN_TIME - 1
  /\ env.storage = <<[numQuestions |-> "1", timePerQuestion |-> "4"]>>

\* what a session shows of itself: activity, countdown, position, counters,
\* records, and the screen with its answer elements
SessionFace(w) ==
  <<w.state.isQuizActive, w.state.timer, w.state.currentQuestionIndex,
    w.state.score, w.state.streak, w.state.bestStreak, w.state.userAnswers,
    w.dom.screen, w.dom.answers>>

\* the ways a fetch ends without questions: a thrown error, an empty list
FailedFetches == {FetchError, [ok |-> TRUE, results |-> <<>>]}

\* C26: a start that fails, by validation or by a fetch that throws or comes
\* back empty, leaves activity, countdown, shown question, position, counters
\* and records as they were, so an idle session stays idle
C26_StartErrorLeavesIdle ==
  /\ \A num \in FormBounds.nums, time \in FormBounds.times :
       ~validateSettings(collectSettings(World, num, time)) =>
         /\ SessionFace(startQuizBegin(World, num, time)) = SessionFace(World)
         /\ startQuizBegin(World, num, time).env.fetches = env.fetches
  /\ env.fetches > 0 =>
       \A result \in FailedFetches :
         SessionFace(startQuizResume(World, result)) = SessionFace(World)

\* a start with valid settings was attempted and its fetch ended without
\* questions: the session is idle with its idle values
C26_Witness ==
  /\ Idle /\ env.storage # <<>> /\ ValidSettings /\ env.fetches = 0
  /\ state.questions = <<>>
  /\ ~state.isQuizActive /\ ~state.timer
  /\ state.currentQuestionIndex = 0 /\ state.score = 0 /\ state.streak = 0
  /\ state.bestStreak = 0 /\ answers = <<>> /\ dom.answers = {}

\* C27: a fetch that comes back with an empty list changes no session
\* state: the question list and every counter are after the failed start
\* what they were before it
C27_EmptyResultChangesNothing ==
  env.fetches > 0 =>
    startQuizResume(World, [ok |-> TRUE, results |-> <<>>]).state = state

\* C28: whatever the state a fetch of at least one question settles in, the
\* session it starts is at question 0 with zero counters and no records, not
\* answered, active, and with exactly one countdown, at timePerQuestion
C28_StartDiscardsPriorState ==
  env.fetches > 0 =>
    \A n \in 1..Bounds.questions :
      LET w == startQuizResume(World, [ok |-> TRUE, results |-> Questions(n)])
      IN /\ w.state.currentQuestionIndex = 0
         /\ w.state.score = 0 /\ w.state.streak = 0 /\ w.state.bestStreak = 0
         /\ w.state.userAnswers = <<>>
         /\ ~w.state.isAnswered
         /\ w.state.isQuizActive
         /\ w.state.timeLeft = w.state.settings.timePerQuestion
         /\ w.state.timer /\ ~w.env.leaked

\* C29: entering the question after the current one, as Next and the delayed
\* auto-advance do: past the end of the list the session is completed, not
\* active, no countdown left running, the results shown, and no question is
\* activated; within the list the index is set, isAnswered and the pending
\* selection are cleared, and a countdown runs from timePerQuestion
C29_EnterQuestion ==
  state.isQuizActive /\ OnScreen("quiz") =>
    LET i == state.currentQuestionIndex + 1
        w == showQuestion(World, i)
    IN IF i >= Len(state.questions)
         THEN /\ ~w.state.isQuizActive
              /\ ~w.state.timer /\ ~w.env.leaked
              /\ w.dom.screen = "end-screen"
              /\ w.state.currentQuestionIndex = state.currentQuestionIndex
              /\ w.state.isAnswered = state.isAnswered
              /\ w.dom.answers = dom.answers
         ELSE /\ w.state.isQuizActive
              /\ w.state.currentQuestionIndex = i
              /\ ~w.state.isAnswered
              /\ w.state.timeLeft = state.settings.timePerQuestion
              /\ w.state.timer
              /\ w.dom.selected = {}
              /\ w.dom.screen = "quiz"

\* C30: a call of fetchQuestions is never pending past API_TIMEOUT; one
\* whose response is not decoded by then has thrown the timed-out error,
\* which none of the other failures throws
C30_FetchBoundedByTimeout ==
  /\ env.request.phase # "settled" => env.request.elapsed <= API_TIMEOUT
  /\ env.request.phase = "settled" /\ env.request.elapsed > API_TIMEOUT =>
       env.request.error = TimedOutMessage
  /\ TimedOutMessage \notin
       {HttpErrorMessage, EmptyResultMessage} \cup {getApiErrorMessage(c) : c \in ResponseCodes}

\* C31: selecting an answer element changes nothing once the question is
\* answered; before that it makes the element the one selected and enables
\* submit, and leaves the session state (records, counters, index, timeLeft,
\* countdown), the answer elements and everything scheduled as they were; at
\* most one element is ever selected
C31_SelectOnlySelects ==
  /\ Cardinality(dom.selected) <= 1
  /\ \A el \in dom.answers :
       LET w == selectAnswer(World, el)
       IN IF state.isAnswered THEN w = World
          ELSE /\ w.dom.selected = {el}
               /\ w.state = state
               /\ w.env = env
               /\ w.dom.answers = dom.answers
               /\ w.dom.screen = dom.screen

\* an answer is selected on an unanswered question and no record exists
C31_Witness ==
  /\ OnScreen("quiz") /\ state.isQuizActive /\ ~state.isAnswered
  /\ dom.selected = {"W1"}
  /\ answers = <<>> /\ state.score = 0
  /\ state.timer /\ state.timeLeft = state.settings.timePerQuestion

\* how often x occurs in the sequence s
Occurrences(s, x) == Cardinality({k \in 1..Len(s) : s[k] = x})

IsPermutationOf(s, t) ==
  /\ Len(s) = Len(t)
  /\ \A x \in Range(s) \cup Range(t) : Occurrences(s, x) = Occurrences(t, x)

\* C32: at every turn of the shuffle the copy is a permutation of the four
\* answers of the question and the argument and the question are as they
\* were; the elements rendered are in the order of the result; and over the
\* values Math.random() can give the results are all 24 orders, each from
\* exactly one sequence of draws, the correct answer in each of 4 positions
C32_ShuffleIsPermutation ==
  LET question == CurrentQuestion(World)
      array == allAnswers(question)
      outcomes == {shuffleArray(array, random) : random \in RandomDraws(Len(array))}
  IN /\ Len(array) = 4 /\ Cardinality(Range(array)) = 4
     /\ IsPermutationOf(env.shuffle.shuffled, array)
     /\ env.shuffle.array = array
     /\ question = Question(1)
     /\ env.shuffle.done =>
          /\ dom.order = env.shuffle.shuffled
          /\ dom.order \in outcomes
          /\ Range(dom.order) = dom.answers
     /\ Cardinality(outcomes) = 24
     /\ Cardinality(RandomDraws(Len(array))) = 24
     /\ \A s \in outcomes : IsPermutationOf(s, array)
     /\ {k \in 1..4 : \E s \in outcomes : s[k] = question.correct_answer} = 1..4

\* the answers are rendered with the correct one first, the rest reversed
C32_Witness ==
  /\ env.shuffle.done
  /\ dom.order = <<"C", "W3", "W2", "W1">>
  /\ env.shuffle.array = <<"W1", "W2", "W3", "C">>
  /\ state.timer

\* C33: a delayed auto-advance that comes due after the session has left
\* the question that timed out (another question is active and unanswered,
\* or the quiz screen is no longer shown) changes nothing
C33_StaleAutoAdvanceIgnored ==
  env.timeouts > 0 /\ (~state.isAnswered \/ ~OnScreen("quiz")) =>
    LET due == [World EXCEPT !.env.timeouts = @ - 1]
    IN autoAdvance(due) = due

\* one record per question, in order, each with no answer and not correct,
\* and nothing scored
AllTimedOut ==
  /\ Len(answers) = Len(state.questions)
  /\ \A k \in 1..Len(answers) :
       /\ answers[k].question = state.questions[k].question
       /\ answers[k].userAnswer = Null
       /\ ~answers[k].isCorrect
  /\ state.score = 0 /\ state.streak = 0 /\ state.bestStreak = 0

\* C34: a session started with valid settings and left alone reaches the
\* results, and on the results every question has its one record, with no
\* answer and not correct, and score, streak and bestStreak are 0
C34_HandsOffCompletes ==
  /\ (state.isQuizActive /\ ValidSettings) ~> Completed
  /\ [](Completed => AllTimedOut /\ ~state.isQuizActive /\ ~state.timer /\ env.timeouts = 0)

\* the results of a session of two questions that both timed out
C34_Witness ==
  /\ Completed /\ Len(state.questions) = 2 /\ AllTimedOut
  /\ answers[2].timeSpent = state.settings.timePerQuestion

\* C35: in every state 0 <= streak <= bestStreak <= score <= number of
\* records <= number of questions
C35_CounterChain ==
  /\ 0 <= state.streak
  /\ state.streak <= state.bestStreak
  /\ state.bestStreak <= state.score
  /\ state.score <= Len(answers)
  /\ Len(answers) <= Len(state.questions)

\* C36: with valid settings, while a question is active and unresolved
\* timeLeft is in 1..timePerQuestion; timeLeft is never negative; and every
\* record's timeSpent is in 0..timePerQuestion
C36_TimeLeftInRange ==
  ValidSettings =>
    /\ state.isQuizActive /\ OnScreen("quiz") /\ ~state.isAnswered =>
         state.timeLeft \in 1..state.settings.timePerQuestion
    /\ state.timeLeft >= 0
    /\ \A k \in 1..Len(answers) :
         answers[k].timeSpent \in 0..state.settings.timePerQuestion

====
